---- MODULE Spec2Model ----
\* MetaConnect: the Socket.IO room/presence broker (backend/server.js), the
\* live-session REST controller (backend/controllers/collaborate/sessions.js)
\* and the message controller (server/controllers/messages.js).
EXTENDS Integers, Sequences, FiniteSets, TLC

\* ---------------------------------------------------------------- universe
Null == "null"

Users == {"u1", "u2"}
Conns == {"c1", "c2", "c3"}

\* identifiers a client may put in a join_* event (a user id among them)
JoinIds == {"u1"}
SessionIds == {"s1", "s2"}

\* room names are template strings `<prefix><id>`; no prefix is a prefix of
\* another, so a room name is modelled by the pair <<prefix, id>>
Room(prefix, id) == <<prefix, id>>
UserRoom(u) == Room("user:", u)
ProjectRoomAsUser(p) == Room("user:", p)
ProjectRoom(p) == Room("project:", p)
CommunityRoom(g) == Room("community:", g)
SessionRoom(s) == Room("session:", s)
\* the room name the REST controller publishes to: `session_${sessionId}`
RestSessionRoom(s) == Room("session_", s)

Prefixes == {"user:", "project:", "community:", "session:", "session_"}
AllRooms == {Room(p, i) : p \in Prefixes, i \in Users \cup JoinIds \cup SessionIds}

\* credentials: none, one that jwt.verify rejects, one valid token per user
NoToken == <<"none", "">>
BadToken == <<"bad", "">>
ValidToken(u) == <<"jwt", u>>
Tokens == {NoToken, BadToken} \cup {ValidToken(u) : u \in Users}

\* payloads and event arguments are pairs of strings
NoArg == <<"", "">>
IdArg(i) == <<"id", i>>

\* number of Message documents, and the ids they get in creation order
MaxMsgs == 1
MsgSeq == <<"m1", "m2", "m3", "m4">>
MsgIds == {MsgSeq[i] : i \in 1..MaxMsgs}
MsgArg(m) == <<"msg", m>>

\* socket handlers suspended on an await at one time
MaxPend == 1

\* session requests received in one behaviour, and the slots they run in
MaxReqs == 2
ReqSlots == {"r1", "r2"}

\* code buffers a client may send; DefaultCode is the schema's default
CodeVals == {"A", "B"}
DefaultCode == "init"

VARIABLES
  connected,   \* [Conns -> BOOLEAN]: the socket is open
  closed,      \* [Conns -> BOOLEAN]: the socket was open and is gone (ids are not reused)
  rooms,       \* adapter.rooms: room -> set of sockets
  sids,        \* adapter.sids: socket -> set of rooms
  userId,      \* socket.data.userId
  out,         \* the events the last step delivered to each socket, in order
  authAs,      \* history: the users each socket authenticated as
  last,        \* history: the last inbound event or request step handled
  msgs,        \* the Message collection: id -> document
  nMsgs,       \* number of Message documents created
  pend,        \* continuations of socket handlers suspended on an await
  sess,        \* the LiveSession collection: id -> document
  reqs,        \* the REST requests in flight, one per slot
  nReq,        \* number of session requests received
  clock,       \* the value the next new Date() returns
  win,         \* history: the stored session when the running burst of
               \* overlapping requests began, the requests of the burst
               \* that reported success, in that order, and those whose
               \* save was applied before they publish, in that order
  edits,       \* history: the code values of the code_update events accepted
               \* (most recently accepted last), the code edits saved, and
               \* the last code_update delivered to each socket
  net,         \* the transports, followed by the transport section only:
               \* down, the sockets whose transport failed and whose
               \* disconnect the server has not yet seen; wire, the events
               \* written to each socket and not yet received; got, the
               \* events each client received; pub (history), the texts
               \* published, in the order of the publish calls
  conv,        \* the conversation of one sender (u1), one recipient (u2)
               \* and one text, followed by the duplicate section only: pc,
               \* the position of each sendMessage request on it; docs, the
               \* Message documents the requests created; pub (history),
               \* the number of new_message events they published
  cli          \* the socket module of one client, followed by the client
               \* section only: handle, the module-level `socket`; st, the
               \* state of each socket the module created; tok, whether a
               \* token was stored when it was created; sent, whether
               \* authenticate was emitted on it since it last connected;
               \* n, the number of sockets created; attempts and abandoned,
               \* connectionAttempts and reconnectionAbandoned; alert, the
               \* Connection Error dialog is open; pc, the position of each
               \* initializeSocket call

brokerVars == <<connected, closed, rooms, sids, userId, out, authAs>>
msgVars == <<msgs, nMsgs, pend>>
sessVars == <<sess, reqs, nReq, clock, win, edits>>
vars == <<connected, closed, rooms, sids, userId, out, authAs, last,
          msgs, nMsgs, pend, sess, reqs, nReq, clock, win, edits, net, conv, cli>>

\* ---------------------------------------------------------------- library
\* jwt.verify(token, secret): the decoded id, or a throw
JwtVerifyThrows(token) == token = BadToken
JwtVerifyId(token) == token[2]

\* socket.join(room): the adapter adds the socket to both of its indexes
SocketJoinToggle(c, r) ==
  /\ rooms' = [rooms EXCEPT ![r] = IF c \in @ THEN @ \ {c} ELSE @ \cup {c}]
  /\ sids' = [sids EXCEPT ![c] = IF r \in @ THEN @ \ {r} ELSE @ \cup {r}]

DelAllNothing(c) == rooms
\* adapter.delAll(id): the socket leaves every room
DelAll(c) == [r \in AllRooms |-> rooms[r] \ {c}]

SocketJoinRoomsOnly(c, r) ==
  /\ rooms' = [rooms EXCEPT ![r] = @ \cup {c}]
  /\ sids' = sids

SocketJoin(c, r) ==
  /\ rooms' = [rooms EXCEPT ![r] = @ \cup {c}]
  /\ sids' = [sids EXCEPT ![c] = @ \cup {r}]

\* delivery of one event to a set of sockets, after the deliveries o the
\* running step has already made
Event(name, arg) == [name |-> name, arg |-> arg]
NoOut == [c \in Conns |-> <<>>]

Deliver(o, targets, name, arg) ==
  [c \in Conns |-> IF c \in targets THEN Append(o[c], Event(name, arg)) ELSE o[c]]

SocketEmitBroadcast(o, c, name, arg) ==
  Deliver(o, {d \in Conns : connected[d]}, name, arg)
\* socket.emit(name, arg)
SocketEmit(o, c, name, arg) == Deliver(o, {c}, name, arg)
IoToEmitEveryone(o, r, name, arg) ==
  Deliver(o, {d \in Conns : connected[d]}, name, arg)
IoToEmitOne(o, r, name, arg) ==
  Deliver(o, IF rooms[r] = {} THEN {} ELSE {CHOOSE c \in rooms[r] : TRUE}, name, arg)
\* io.to(room).emit(name, arg)
IoToEmit(o, r, name, arg) == Deliver(o, rooms[r], name, arg)
\* socket.to(room).emit(name, arg)
SocketToEmitAll(o, c, r, name, arg) == Deliver(o, rooms[r], name, arg)
SocketToEmit(o, c, r, name, arg) == Deliver(o, rooms[r] \ {c}, name, arg)

\* ---------------------------------------------------------------- broker
NoMessage == [sender |-> Null, recipient |-> Null, read |-> FALSE, recent |-> FALSE]
Exists(m) == \E i \in 1..nMsgs : MsgSeq[i] = m

InitBroker ==
  /\ connected = [c \in Conns |-> FALSE]
  /\ closed = [c \in Conns |-> FALSE]
  /\ rooms = [r \in AllRooms |-> {}]
  /\ sids = [c \in Conns |-> {}]
  /\ userId = [c \in Conns |-> Null]
  /\ out = NoOut
  /\ authAs = [c \in Conns |-> {}]
  /\ last = [conn |-> Null, name |-> "init", arg |-> NoArg, note |-> ""]

InitMsgs ==
  /\ msgs = [m \in MsgIds |-> NoMessage]
  /\ nMsgs = 0
  /\ pend = {}

\* no transport has failed, nothing is on a wire
InitNet ==
  net = [down |-> {}, wire |-> NoOut, got |-> NoOut, pub |-> <<>>]

\* sendMessage requests that may overlap on one conversation
SendSlots == {"a", "b", "c"}
\* no sendMessage request has arrived
InitConv ==
  conv = [pc |-> [r \in SendSlots |-> "idle"], docs |-> <<>>, pub |-> 0]

\* sockets one client creates in one behaviour, in creation order
MaxSocks == 3
SockSeq == <<"k1", "k2", "k3", "k4">>
CSocks == {SockSeq[i] : i \in 1..MaxSocks}
\* initializeSocket calls that may overlap
Calls == {"a", "b"}
\* connectionAttempts is followed up to MaxErrs
MaxErrs == 6
MAX_RECONNECTION_ATTEMPTS == 5
\* the module as loaded: socket = null, connectionAttempts = 0,
\* reconnectionAbandoned = false
InitCli ==
  cli = [handle |-> Null,
         st |-> [k \in CSocks |-> "none"],
         tok |-> [k \in CSocks |-> FALSE],
         sent |-> [k \in CSocks |-> FALSE],
         n |-> 0, attempts |-> 0, abandoned |-> FALSE, alert |-> FALSE,
         pc |-> [a \in Calls |-> "idle"]]

\* history only: the event or request step this step handled, and the branch
\* of the handler it took
Noted(c, name, arg, note) ==
  last' = [conn |-> c, name |-> name, arg |-> arg, note |-> note]
\* ... of a step that delivers in the step itself (out)
HandledAs(c, name, arg, note) ==
  /\ Noted(c, name, arg, note)
  /\ UNCHANGED <<net, conv, cli>>
Handled(c, name, arg) == HandledAs(c, name, arg, "")

\* history only: the join event is for a room the socket is already in
Rejoin(c, r) == IF r \in sids[c] THEN "again" ELSE ""

\* io.on('connection')
Connect(c) ==
  /\ ~connected[c] /\ ~closed[c]
  /\ connected' = [connected EXCEPT ![c] = TRUE]
  /\ Handled(c, "connection", NoArg)
  /\ out' = NoOut
  /\ UNCHANGED <<closed, rooms, sids, userId, authAs>>
  /\ UNCHANGED <<msgVars, sessVars>>

\* socket.on('authenticate')
Authenticate(c, token) ==
  /\ connected[c]
  /\ Handled(c, "authenticate", token)
  /\ UNCHANGED <<msgVars, sessVars>>
  /\ UNCHANGED <<connected, closed>>
  /\ IF token = NoToken
     THEN /\ out' = NoOut
          /\ UNCHANGED <<rooms, sids, userId, authAs>>
     ELSE IF JwtVerifyThrows(token)
     THEN /\ out' = SocketEmit(NoOut, c, "authentication_error", NoArg)
          /\ UNCHANGED <<rooms, sids, userId, authAs>>
     ELSE LET u == JwtVerifyId(token) IN
          /\ SocketJoin(c, UserRoom(u))
          /\ userId' = [userId EXCEPT ![c] = u]
          /\ authAs' = [authAs EXCEPT ![c] = @ \cup {u}]
          /\ out' = SocketEmit(NoOut, c, "authentication_success", IdArg(u))

\* socket.on('join_project')
JoinProject(c, id) ==
  /\ connected[c]
  /\ SocketJoin(c, ProjectRoom(id))
  /\ HandledAs(c, "join_project", IdArg(id), Rejoin(c, ProjectRoom(id)))
  /\ out' = NoOut
  /\ UNCHANGED <<connected, closed, userId, authAs>>
  /\ UNCHANGED <<msgVars, sessVars>>

\* socket.on('join_community')
JoinCommunity(c, id) ==
  /\ connected[c]
  /\ SocketJoin(c, CommunityRoom(id))
  /\ HandledAs(c, "join_community", IdArg(id), Rejoin(c, CommunityRoom(id)))
  /\ out' = NoOut
  /\ UNCHANGED <<connected, closed, userId, authAs>>
  /\ UNCHANGED <<msgVars, sessVars>>

\* socket.on('join_session')
JoinSessionRoom(c, id) ==
  /\ connected[c]
  /\ SocketJoin(c, SessionRoom(id))
  /\ HandledAs(c, "join_session", IdArg(id), Rejoin(c, SessionRoom(id)))
  /\ out' = NoOut
  /\ UNCHANGED <<connected, closed, userId, authAs>>
  /\ UNCHANGED <<msgVars, sessVars>>

\* leave_project / leave_community / leave_session: the client sends them,
\* the server registers no listener for them
LeaveEvent(c, prefix, id) ==
  /\ connected[c]
  /\ Handled(c, "leave", Room(prefix, id))
  /\ out' = NoOut
  /\ UNCHANGED <<connected, closed, rooms, sids, userId, authAs>>
  /\ UNCHANGED <<msgVars, sessVars>>

\* socket.on('disconnect'): the library has already removed the socket from
\* its rooms (adapter.delAll); the handler only logs
Disconnect(c) ==
  /\ connected[c]
  /\ connected' = [connected EXCEPT ![c] = FALSE]
  /\ closed' = [closed EXCEPT ![c] = TRUE]
  /\ rooms' = DelAll(c)
  /\ sids' = [sids EXCEPT ![c] = {}]
  /\ userId' = [userId EXCEPT ![c] = Null]
  /\ authAs' = [authAs EXCEPT ![c] = {}]
  /\ out' = NoOut
  /\ Handled(c, "disconnect", NoArg)
  /\ UNCHANGED <<msgVars, sessVars>>

\* a second close of a socket that is already closed (a ping timeout after a
\* disconnect, or the reverse): the library ignores it and the disconnect
\* listener does not run again
DropAgain(c) ==
  /\ closed[c]
  /\ Handled(c, "drop_ignored", NoArg)
  /\ out' = NoOut
  /\ UNCHANGED <<connected, closed, rooms, sids, userId, authAs>>
  /\ UNCHANGED <<msgVars, sessVars>>

\* socket.on('collaboration_update'): socket.to(`project:${data.projectId}`).emit
CollaborationUpdate(c, id) ==
  /\ connected[c]
  /\ out' = SocketToEmit(NoOut, c, ProjectRoom(id), "collaboration_update", IdArg(id))
  /\ Handled(c, "collaboration_update", IdArg(id))
  /\ UNCHANGED <<connected, closed, rooms, sids, userId, authAs>>
  /\ UNCHANGED <<msgVars, sessVars>>

\* socket.on('chat_message'): io.to(`project:${data.projectId}`).emit
ChatMessage(c, id) ==
  /\ connected[c]
  /\ out' = IoToEmit(NoOut, ProjectRoom(id), "chat_message", IdArg(id))
  /\ Handled(c, "chat_message", IdArg(id))
  /\ UNCHANGED <<connected, closed, rooms, sids, userId, authAs>>
  /\ UNCHANGED <<msgVars, sessVars>>

\* ---------------------------------------------------------------- messages
\* Message.create({sender, recipient, text}): read defaults to false
NewMessage(from, to) ==
  [sender |-> from, recipient |-> to, read |-> FALSE, recent |-> TRUE]

\* a handler suspended on an await: what it resumes with
Cont(kind, who, m, to) == [kind |-> kind, who |-> who, msg |-> m, to |-> to]

\* socket.on('direct_message'), up to the await of Message.create
DirectMessage(c, to) ==
  /\ connected[c]
  /\ Handled(c, "direct_message", IdArg(to))
  /\ out' = NoOut
  /\ UNCHANGED <<connected, closed, rooms, sids, userId, authAs, sessVars>>
  /\ IF userId[c] = Null
     THEN UNCHANGED <<msgs, nMsgs, pend>>
     ELSE /\ nMsgs < MaxMsgs
          /\ Cardinality(pend) < MaxPend
          /\ LET m == MsgSeq[nMsgs + 1] IN
             /\ msgs' = [msgs EXCEPT ![m] = NewMessage(userId[c], to)]
             /\ pend' = pend \cup {Cont("direct_message", c, m, to)}
          /\ nMsgs' = nMsgs + 1

\* socket.on('direct_message'), after the await: the emit to both personal rooms
DirectMessageEmit(p) ==
  /\ p.kind = "direct_message"
  /\ pend' = pend \ {p}
  /\ out' = Deliver(NoOut,
                    rooms[UserRoom(msgs[p.msg].recipient)] \cup rooms[UserRoom(msgs[p.msg].sender)],
                    "direct_message", MsgArg(p.msg))
  /\ Handled(p.who, "direct_message_emit", MsgArg(p.msg))
  /\ UNCHANGED <<connected, closed, rooms, sids, userId, authAs>>
  /\ UNCHANGED <<msgs, nMsgs, sessVars>>

\* Message.findByIdAndUpdate(messageId, {read: true}, {new: true})
FindByIdAndUpdateReadToggle(m) ==
  msgs' = IF Exists(m) THEN [msgs EXCEPT ![m].read = ~@] ELSE msgs

FindByIdAndUpdateRead(m) ==
  msgs' = IF Exists(m) THEN [msgs EXCEPT ![m].read = TRUE] ELSE msgs

\* socket.on('mark_read'), up to the await of findByIdAndUpdate
MarkRead(c, m) ==
  /\ connected[c]
  /\ HandledAs(c, "mark_read", MsgArg(m),
               IF ~Exists(m) THEN "not_found"
               ELSE IF msgs[m].read THEN "already_read" ELSE "first_read")
  /\ out' = NoOut
  /\ UNCHANGED <<connected, closed, rooms, sids, userId, authAs, sessVars, nMsgs>>
  /\ FindByIdAndUpdateRead(m)
  /\ IF Exists(m)
     THEN /\ Cardinality(pend) < MaxPend
          /\ pend' = pend \cup {Cont("mark_read", c, m, "")}
     ELSE pend' = pend

\* socket.on('mark_read'), after the await: if (message) emit to the sender
MarkReadEmit(p) ==
  /\ p.kind = "mark_read"
  /\ pend' = pend \ {p}
  /\ out' = IoToEmit(NoOut, UserRoom(msgs[p.msg].sender), "message_read", MsgArg(p.msg))
  /\ Handled(p.who, "mark_read_emit", MsgArg(p.msg))
  /\ UNCHANGED <<connected, closed, rooms, sids, userId, authAs>>
  /\ UNCHANGED <<msgs, nMsgs, sessVars>>

\* getMessages: Message.updateMany({sender: other, recipient: me, read: false},
\* {read: true}); the handler publishes nothing
GetMessages(me, other) ==
  /\ msgs' = [m \in MsgIds |->
                IF Exists(m) /\ msgs[m].sender = other /\ msgs[m].recipient = me
                   /\ ~msgs[m].read
                THEN [msgs[m] EXCEPT !.read = TRUE] ELSE msgs[m]]
  /\ Handled(me, "getMessages", IdArg(other))
  /\ out' = NoOut
  /\ UNCHANGED <<connected, closed, rooms, sids, userId, authAs, sessVars, nMsgs, pend>>

\* sendMessage, up to the await of Message.create: the self check, the
\* recipient lookup (every id of Users is a stored user) and the duplicate
\* query {sender, recipient, text, createdAt > now - 5000}
RecentDuplicate(from, to) ==
  \E m \in MsgIds : /\ Exists(m) /\ msgs[m].recent
                    /\ msgs[m].sender = from /\ msgs[m].recipient = to

SendMessage(from, to) ==
  /\ out' = NoOut
  /\ UNCHANGED <<connected, closed, rooms, sids, userId, authAs, sessVars, msgs, nMsgs>>
  /\ IF from = to
     THEN /\ HandledAs(from, "sendMessage", IdArg(to), "400")
          /\ pend' = pend
     ELSE IF RecentDuplicate(from, to)
     THEN /\ HandledAs(from, "sendMessage", IdArg(to), "duplicate")
          /\ pend' = pend
     ELSE /\ Cardinality(pend) < MaxPend
          /\ HandledAs(from, "sendMessage", IdArg(to), "create")
          /\ pend' = pend \cup {Cont("send_create", from, "", to)}

\* sendMessage: Message.create
SendMessageCreate(p) ==
  /\ p.kind = "send_create"
  /\ nMsgs < MaxMsgs
  /\ LET m == MsgSeq[nMsgs + 1] IN
     /\ msgs' = [msgs EXCEPT ![m] = NewMessage(p.who, p.to)]
     /\ pend' = (pend \ {p}) \cup {Cont("send_emit", p.who, m, p.to)}
     /\ Handled(p.who, "sendMessage_create", MsgArg(m))
  /\ nMsgs' = nMsgs + 1
  /\ out' = NoOut
  /\ UNCHANGED <<connected, closed, rooms, sids, userId, authAs, sessVars>>

\* sendMessage, after the populate: req.io.to(`user:${recipient}`).emit('new_message')
SendMessageEmit(p) ==
  /\ p.kind = "send_emit"
  /\ pend' = pend \ {p}
  /\ out' = IoToEmit(NoOut, UserRoom(p.to), "new_message", MsgArg(p.msg))
  /\ Handled(p.who, "sendMessage_emit", MsgArg(p.msg))
  /\ UNCHANGED <<connected, closed, rooms, sids, userId, authAs>>
  /\ UNCHANGED <<msgs, nMsgs, sessVars>>

\* socket.on('direct_message') when Message.create rejects: nothing is stored
\* and the catch emits message_error to the sending socket
DirectMessageFail(c, to) ==
  /\ connected[c] /\ userId[c] # Null
  /\ HandledAs(c, "direct_message", IdArg(to), "failed")
  /\ out' = SocketEmit(NoOut, c, "message_error", NoArg)
  /\ UNCHANGED <<connected, closed, rooms, sids, userId, authAs, sessVars>>
  /\ UNCHANGED <<msgs, nMsgs, pend>>

SendMessageCreateFailEmits(p) ==
  /\ p.kind = "send_create"
  /\ pend' = pend \ {p}
  /\ HandledAs(p.who, "sendMessage_create", IdArg(p.to), "500")
  /\ out' = IoToEmit(NoOut, UserRoom(p.to), "new_message", IdArg(p.to))
  /\ UNCHANGED <<connected, closed, rooms, sids, userId, authAs, sessVars>>
  /\ UNCHANGED <<msgs, nMsgs>>

\* sendMessage when Message.create rejects: the catch answers 500
SendMessageCreateFail(p) ==
  /\ p.kind = "send_create"
  /\ pend' = pend \ {p}
  /\ HandledAs(p.who, "sendMessage_create", IdArg(p.to), "500")
  /\ out' = NoOut
  /\ UNCHANGED <<connected, closed, rooms, sids, userId, authAs, sessVars>>
  /\ UNCHANGED <<msgs, nMsgs>>

\* five seconds pass: no stored message is inside the duplicate window any more
Elapse ==
  /\ \E m \in MsgIds : msgs[m].recent
  /\ msgs' = [m \in MsgIds |-> [msgs[m] EXCEPT !.recent = FALSE]]
  /\ Handled(Null, "elapse", NoArg)
  /\ out' = NoOut
  /\ UNCHANGED <<connected, closed, rooms, sids, userId, authAs, sessVars, nMsgs, pend>>

\* ---------------------------------------------------------------- sessions
\* a LiveSession document; endedAt = 0 stands for an unset date, v is __v
NoDoc ==
  [exists |-> FALSE, status |-> "", host |-> Null, participants |-> <<>>,
   codeSnippet |-> "", endedAt |-> 0, v |-> 0]

\* createSession: new LiveSession({host, status, participants: [userId]})
NewSession(h, st) ==
  [exists |-> TRUE, status |-> st, host |-> h, participants |-> <<h>>,
   codeSnippet |-> DefaultCode, endedAt |-> 0, v |-> 0]

Includes(seq, u) == \E i \in 1..Len(seq) : seq[i] = u
Without(seq, u) == SelectSeq(seq, LAMBDA x : x # u)

\* what a handler has when it calls save (code 200) or returns early: the
\* response status, the document it holds in memory, and the id it pushed
Reply(code, doc, push) == [code |-> code, doc |-> doc, push |-> push]

\* joinSession, from findById to the call of save
JoinHandler(doc, u) ==
  IF ~doc.exists THEN Reply("404", doc, Null)
  ELSE IF doc.status = "ended" THEN Reply("400", doc, Null)
  ELSE LET st == IF doc.status = "scheduled" THEN "live" ELSE doc.status IN
       IF Includes(doc.participants, u)
       THEN Reply("200", [doc EXCEPT !.status = st], Null)
       ELSE Reply("200", [doc EXCEPT !.status = st,
                                     !.participants = Append(@, u)], u)

\* leaveSession, from findById to the call of save
LeaveHandler(doc, u, now) ==
  IF ~doc.exists THEN Reply("404", doc, Null)
  ELSE IF doc.host = u
  THEN Reply("200", [doc EXCEPT !.participants = Without(@, u),
                                !.status = "ended", !.endedAt = now], Null)
  ELSE Reply("200", [doc EXCEPT !.participants = Without(@, u)], Null)

\* updateSessionStatus, from findById to the call of save
StatusHandlerAnyUser(doc, u, st, now) ==
  IF ~doc.exists THEN Reply("404", doc, Null)
  ELSE IF doc.status = "ended" /\ st # "ended" THEN Reply("400", doc, Null)
  ELSE IF st = "ended"
  THEN Reply("200", [doc EXCEPT !.status = st, !.endedAt = now], Null)
  ELSE Reply("200", [doc EXCEPT !.status = st], Null)
StatusHandler(doc, u, st, now) ==
  IF ~doc.exists THEN Reply("404", doc, Null)
  ELSE IF doc.host # u THEN Reply("403", doc, Null)
  ELSE IF st \notin {"scheduled", "live", "ended"} THEN Reply("400", doc, Null)
  ELSE IF doc.status = "ended" /\ st # "ended" THEN Reply("400", doc, Null)
  ELSE IF st = "ended"
  THEN Reply("200", [doc EXCEPT !.status = st, !.endedAt = now], Null)
  ELSE Reply("200", [doc EXCEPT !.status = st], Null)

\* updateCodeSnippet, from findById to the call of save
CodeHandler(doc, u, val) ==
  IF ~doc.exists THEN Reply("404", doc, Null)
  ELSE IF ~Includes(doc.participants, u) THEN Reply("403", doc, Null)
  ELSE IF doc.status = "ended" THEN Reply("400", doc, Null)
  ELSE Reply("200", [doc EXCEPT !.codeSnippet = val], Null)

Handle(op, doc, u, arg, now) ==
  CASE op = "join" -> JoinHandler(doc, u)
    [] op = "leave" -> LeaveHandler(doc, u, now)
    [] op = "status" -> StatusHandler(doc, u, arg, now)
    [] op = "code" -> CodeHandler(doc, u, arg)

\* session.save() of a document read as snap and changed in memory to loc:
\* mongoose sends the modified paths only. A pushed id goes as $push and
\* increments __v; an assigned array goes as $set, with __v in the filter
\* and incremented (a changed __v makes save throw VersionError)
ArraySet(snap, loc, push) == push = Null /\ loc.participants # snap.participants

SaveThrows(cur, snap, loc, push) == ArraySet(snap, loc, push) /\ cur.v # snap.v

Saved(cur, snap, loc, push) ==
  [cur EXCEPT
     !.status = IF loc.status # snap.status THEN loc.status ELSE @,
     !.endedAt = IF loc.endedAt # snap.endedAt THEN loc.endedAt ELSE @,
     !.codeSnippet = IF loc.codeSnippet # snap.codeSnippet THEN loc.codeSnippet ELSE @,
     !.participants = IF ArraySet(snap, loc, push) THEN loc.participants
                      ELSE IF push # Null THEN Append(@, push) ELSE @,
     !.v = IF ArraySet(snap, loc, push) \/ push # Null THEN @ + 1 ELSE @]

IdleReq ==
  [pc |-> "idle", op |-> "", user |-> Null, sid |-> "", arg |-> "",
   snap |-> NoDoc, loc |-> NoDoc, push |-> Null]

AllIdle(rq) == \A r \in ReqSlots : rq[r].pc = "idle"
FreeSlot == IF reqs["r1"].pc = "idle" THEN "r1" ELSE "r2"

\* history only: the burst of overlapping requests on session s1
Op(op, u, arg) == [op |-> op, user |-> u, arg |-> arg]
WinSid == "s1"
WinStarted(sid) ==
  IF sid # WinSid THEN win
  ELSE IF AllIdle(reqs)
  THEN [base |-> sess[WinSid], ok |-> <<>>, n |-> 1, done |-> <<>>]
  ELSE [win EXCEPT !.n = @ + 1]
\* the save of a request that goes on to publish was applied
WinCommitted(q) ==
  IF q.sid # WinSid THEN win
  ELSE [win EXCEPT !.done = Append(@, Op(q.op, q.user, q.arg))]
WinSucceeded(q) ==
  IF q.sid # WinSid THEN win
  ELSE [win EXCEPT !.ok = Append(@, Op(q.op, q.user, q.arg))]

\* history only: the values of the code edits saved
EditSaved(q) ==
  IF q.op = "code" THEN [edits EXCEPT !.saved = @ \cup {q.arg}] ELSE edits

\* a request arrives and runs to its first store write, or to an early return
Receive(op, u, sid, arg) ==
  /\ nReq < MaxReqs
  /\ \E r \in ReqSlots : reqs[r].pc = "idle"
  /\ nReq' = nReq + 1
  /\ out' = NoOut
  /\ LET h == Handle(op, sess[sid], u, arg, clock) IN
     /\ HandledAs(u, op, <<sid, arg>>, h.code)
     /\ IF h.code = "200"
        THEN /\ reqs' = [reqs EXCEPT ![FreeSlot] =
                           [pc |-> "save", op |-> op, user |-> u, sid |-> sid,
                            arg |-> arg, snap |-> sess[sid], loc |-> h.doc,
                            push |-> h.push]]
             /\ win' = WinStarted(sid)
             /\ clock' = IF h.doc.endedAt # sess[sid].endedAt THEN clock + 1 ELSE clock
        ELSE UNCHANGED <<reqs, win, clock>>
  /\ UNCHANGED <<connected, closed, rooms, sids, userId, authAs, msgVars, sess, edits>>

\* joinSession
JoinSession(u, sid) == Receive("join", u, sid, "")
\* leaveSession
LeaveSession(u, sid) == Receive("leave", u, sid, "")
\* updateSessionStatus
UpdateSessionStatus(u, sid, st) == Receive("status", u, sid, st)
\* updateCodeSnippet
UpdateCodeSnippet(u, sid, val) == Receive("code", u, sid, val)

ResumesInTurn(r, pc) ==
  /\ reqs[r].pc = pc
  /\ \A r2 \in ReqSlots \ {r} : reqs[r2].pc = "idle"
\* the handler of request r, suspended on the await it reached (pc), can
\* resume: the handlers take no lock and wait for no other request, of the
\* same session or of another
Resumes(r, pc) == reqs[r].pc = pc

\* the store applies the write of `await session.save()`; updateCodeSnippet
\* has nothing to publish and answers at once
SaveSession(r) ==
  LET q == reqs[r] IN
  /\ Resumes(r, "save")
  /\ out' = NoOut
  /\ UNCHANGED <<connected, closed, rooms, sids, userId, authAs, msgVars, nReq, clock>>
  /\ IF SaveThrows(sess[q.sid], q.snap, q.loc, q.push)
     THEN /\ HandledAs(q.user, "save", <<q.sid, q.op>>, "500")
          /\ reqs' = [reqs EXCEPT ![r] = IdleReq]
          /\ UNCHANGED <<sess, win, edits>>
     ELSE /\ sess' = [sess EXCEPT ![q.sid] = Saved(@, q.snap, q.loc, q.push)]
          /\ IF q.op = "code"
             THEN /\ HandledAs(q.user, "save", <<q.sid, q.op>>, "200")
                  /\ reqs' = [reqs EXCEPT ![r] = IdleReq]
                  /\ win' = WinSucceeded(q)
                  /\ edits' = EditSaved(q)
             ELSE /\ HandledAs(q.user, "save", <<q.sid, q.op>>, "")
                  /\ reqs' = [reqs EXCEPT ![r].pc = "emit"]
                  /\ win' = WinCommitted(q)
                  /\ UNCHANGED edits

\* `await session.save()` rejects for a reason of the store: the catch
\* answers 500 and the handler publishes nothing
SaveSessionFail(r) ==
  LET q == reqs[r] IN
  /\ Resumes(r, "save")
  /\ out' = NoOut
  /\ HandledAs(q.user, "save", <<q.sid, q.op>>, "500")
  /\ reqs' = [reqs EXCEPT ![r] = IdleReq]
  /\ UNCHANGED <<connected, closed, rooms, sids, userId, authAs, msgVars,
                 sess, nReq, clock, win, edits>>

\* the events a handler publishes after its save, to `session_${sessionId}`
Published(q) ==
  LET r == RestSessionRoom(q.sid) IN
  CASE q.op = "join" -> IoToEmit(NoOut, r, "participant_joined", IdArg(q.sid))
    [] q.op = "leave" ->
         IF q.loc.host = q.user
         THEN IoToEmit(IoToEmit(NoOut, r, "participant_left", IdArg(q.sid)),
                       r, "session_ended", IdArg(q.sid))
         ELSE IoToEmit(NoOut, r, "participant_left", IdArg(q.sid))
    [] q.op = "status" ->
         IF q.arg = "ended"
         THEN IoToEmit(IoToEmit(NoOut, r, "session_status_changed", IdArg(q.sid)),
                       r, "session_ended", IdArg(q.sid))
         ELSE IoToEmit(NoOut, r, "session_status_changed", IdArg(q.sid))

\* the handler resumes after its save: it publishes and answers
RespondSession(r) ==
  LET q == reqs[r] IN
  /\ Resumes(r, "emit")
  /\ out' = Published(q)
  /\ HandledAs(q.user, "respond", <<q.sid, q.op>>, "200")
  /\ reqs' = [reqs EXCEPT ![r] = IdleReq]
  /\ win' = WinSucceeded(q)
  /\ UNCHANGED <<connected, closed, rooms, sids, userId, authAs, msgVars,
                 sess, nReq, clock, edits>>

\* socket.on('code_update'): socket.to(`session:${data.sessionId}`).emit
CodeUpdate(c, sid, val) ==
  /\ connected[c]
  /\ out' = SocketToEmit(NoOut, c, SessionRoom(sid), "code_update", <<sid, val>>)
  /\ Handled(c, "code_update", <<sid, val>>)
  /\ edits' = [edits EXCEPT
                 !.acc = Append(Without(@, val), val),
                 !.lastCode = [d \in Conns |->
                                 IF d \in rooms[SessionRoom(sid)] \ {c}
                                 THEN val ELSE @[d]]]
  /\ UNCHANGED <<connected, closed, rooms, sids, userId, authAs, msgVars,
                 sess, reqs, nReq, clock, win>>

InitSess ==
  /\ sess = [s \in SessionIds |-> NoDoc]
  /\ reqs = [r \in ReqSlots |-> IdleReq]
  /\ nReq = 0
  /\ clock = 1
  /\ win = [base |-> NoDoc, ok |-> <<>>, n |-> 0, done |-> <<>>]
  /\ edits = [acc |-> <<>>, saved |-> {}, lastCode |-> [c \in Conns |-> ""]]

\* ---------------------------------------------------------------- SpecRooms
RoomConns == {"c1", "c2"}

InitRooms == InitBroker /\ InitMsgs /\ InitNet /\ InitConv /\ InitCli /\ InitSess

NextRooms ==
  \/ \E c \in RoomConns : Connect(c)
  \/ \E c \in RoomConns, t \in Tokens : Authenticate(c, t)
  \/ \E c \in RoomConns, i \in JoinIds : JoinProject(c, i)
  \/ \E c \in RoomConns, i \in JoinIds : JoinCommunity(c, i)
  \/ \E c \in RoomConns, i \in JoinIds : JoinSessionRoom(c, i)
  \/ \E c \in RoomConns, p \in {"project:", "community:", "session:"}, i \in JoinIds :
        LeaveEvent(c, p, i)
  \/ \E c \in RoomConns : Disconnect(c)

SpecRooms == InitRooms /\ [][NextRooms]_vars

\* C1: after any sequence of authenticate, join_*, leave and disconnect events a
\* socket is in the subscriber set of a room iff the room is in the socket's
\* own room set
C1_BidirectionalIndex ==
  \A c \in Conns, r \in AllRooms : (c \in rooms[r]) <=> (r \in sids[c])

\* one socket has dropped while another holds a personal, a project and a
\* session room
C1_Witness ==
  /\ last.name = "disconnect" /\ last.conn = "c1"
  /\ {UserRoom("u2"), ProjectRoom("u1"), SessionRoom("u1")} \subseteq sids["c2"]

\* C10: an authenticate on a socket already identified as A never changes its
\* identity or its room set, and never answers authentication_success for
\* another user
C10_ReauthKeepsIdentity ==
  [][\A c \in Conns :
       (last'.name = "authenticate" /\ last'.conn = c /\ userId[c] # Null)
       => /\ userId'[c] = userId[c]
          /\ sids'[c] = sids[c]
          /\ \A i \in 1..Len(out'[c]) :
                out'[c][i].name = "authentication_success"
                => out'[c][i].arg = IdArg(userId[c])]_vars

\* ---------------------------------------------------------------- SpecMsg
\* the credential each client holds: two devices of u1, one of u2
\* u1 holds sockets c1 and c2, u2 holds c3; the second socket of u1 may drop
TokenOf(c) == IF c = "c3" THEN ValidToken("u2") ELSE ValidToken("u1")

\* the three sockets are open and none has sent an event yet
InitOpen ==
  /\ connected = [c \in Conns |-> TRUE]
  /\ closed = [c \in Conns |-> FALSE]
  /\ rooms = [r \in AllRooms |-> {}]
  /\ sids = [c \in Conns |-> {}]
  /\ userId = [c \in Conns |-> Null]
  /\ authAs = [c \in Conns |-> {}]
  /\ out = NoOut
  /\ last = [conn |-> Null, name |-> "init", arg |-> NoArg, note |-> ""]
  /\ InitMsgs /\ InitNet /\ InitConv /\ InitCli
  /\ InitSess

NextMsg ==
  \/ \E c \in Conns : Authenticate(c, TokenOf(c))
  \/ Disconnect("c2")
  \/ \E c \in Conns, u \in Users : DirectMessage(c, u)
  \/ \E p \in pend : DirectMessageEmit(p)
  \/ \E c \in Conns, m \in MsgIds : MarkRead(c, m)
  \/ \E p \in pend : MarkReadEmit(p)
  \/ \E u \in Users, o \in Users : GetMessages(u, o)
  \/ \E u \in Users, o \in Users : SendMessage(u, o)
  \/ \E p \in pend : SendMessageCreate(p)
  \/ \E p \in pend : SendMessageEmit(p)
  \/ Elapse

SpecMsg == InitOpen /\ [][NextMsg]_vars

\* the users whose personal room an emit step published to
PublishedTo ==
  IF last.name = "mark_read_emit" THEN {msgs[last.arg[2]].sender}
  ELSE IF last.name = "sendMessage_emit" THEN {msgs[last.arg[2]].recipient}
  ELSE IF last.name = "direct_message_emit"
  THEN {msgs[last.arg[2]].sender, msgs[last.arg[2]].recipient}
  ELSE {}

PublishedName ==
  IF last.name = "mark_read_emit" THEN "message_read"
  ELSE IF last.name = "sendMessage_emit" THEN "new_message"
  ELSE "direct_message"

\* C7: an event published to user:<U> is delivered, once, to every open socket
\* that authenticated as U and to no socket that never authenticated as U
C7_MultiDeviceFanOut ==
  PublishedTo # {} =>
    \A c \in Conns :
      IF authAs[c] \cap PublishedTo # {}
      THEN out[c] = <<Event(PublishedName, last.arg)>>
      ELSE out[c] = <<>>

\* message_read reaches both devices of u1 and not the open socket of u2
C7_Witness ==
  /\ last.name = "mark_read_emit"
  /\ authAs["c1"] = {"u1"} /\ authAs["c2"] = {"u1"} /\ authAs["c3"] = {"u2"}
  /\ out["c1"] # <<>> /\ out["c2"] # <<>> /\ out["c3"] = <<>>

\* C8: a read flag never goes back from true to false, and a mark_read of a
\* message already read finds the message, leaves it read and goes on to
\* publish message_read
C8_ReadMonotonic ==
  [][/\ \A m \in MsgIds : msgs[m].read => msgs'[m].read
     /\ \A m \in MsgIds :
          (last'.name = "mark_read" /\ last'.arg = MsgArg(m)
             /\ Exists(m) /\ msgs[m].read)
          => /\ msgs'[m].read
             /\ Cont("mark_read", last'.conn, m, "") \in pend']_vars

\* a mark_read of a message that was already read has been handled
C8_Witness ==
  /\ last.name = "mark_read" /\ last.note = "already_read"
  /\ msgs[last.arg[2]].read

\* C9: a mark_read from a socket that is not identified as the message's
\* recipient leaves the read flag as it was and publishes nothing
C9_OnlyRecipientMarksRead ==
  [][\A c \in Conns, m \in MsgIds :
       (last'.name = "mark_read" /\ last'.conn = c /\ last'.arg = MsgArg(m)
          /\ Exists(m) /\ userId[c] # msgs[m].recipient)
       => (msgs'[m].read = msgs[m].read /\ pend' = pend)]_vars

\* ---------------------------------------------------------------- SpecSess
\* u1 hosts session s1 (s2 is the id of no session); c1 is u1's socket, c2 is
\* u2's socket, both authenticated
SessConns == {"c1", "c2"}
UserOf(c) == IF c = "c1" THEN "u1" ELSE "u2"

InitSessions ==
  /\ connected = [c \in Conns |-> c \in SessConns]
  /\ closed = [c \in Conns |-> FALSE]
  /\ rooms = [r \in AllRooms |-> {c \in SessConns : r = UserRoom(UserOf(c))}]
  /\ sids = [c \in Conns |-> IF c \in SessConns THEN {UserRoom(UserOf(c))} ELSE {}]
  /\ userId = [c \in Conns |-> IF c \in SessConns THEN UserOf(c) ELSE Null]
  /\ authAs = [c \in Conns |-> IF c \in SessConns THEN {UserOf(c)} ELSE {}]
  /\ out = NoOut
  /\ last = [conn |-> Null, name |-> "init", arg |-> NoArg, note |-> ""]
  /\ InitMsgs /\ InitNet /\ InitConv /\ InitCli
  /\ \E st \in {"scheduled", "live"} :
       sess = [s \in SessionIds |-> IF s = "s1" THEN NewSession("u1", st) ELSE NoDoc]
  /\ reqs = [r \in ReqSlots |-> IdleReq]
  /\ nReq = 0
  /\ clock = 1
  /\ win = [base |-> NoDoc, ok |-> <<>>, n |-> 0, done |-> <<>>]
  /\ edits = [acc |-> <<>>, saved |-> {}, lastCode |-> [c \in Conns |-> ""]]

NextSess ==
  \/ \E c \in SessConns : JoinSessionRoom(c, "s1")
  \/ \E c \in SessConns : Disconnect(c)
  \/ \E u \in Users, s \in SessionIds : JoinSession(u, s)
  \/ \E u \in Users, s \in SessionIds : LeaveSession(u, s)
  \/ \E u \in Users, s \in SessionIds, st \in {"scheduled", "live", "ended"} :
        UpdateSessionStatus(u, s, st)
  \/ \E u \in Users, s \in SessionIds, v \in CodeVals : UpdateCodeSnippet(u, s, v)
  \/ \E r \in ReqSlots : SaveSession(r)
  \/ \E r \in ReqSlots : RespondSession(r)

SpecSess == InitSessions /\ [][NextSess]_vars

\* the save and the answer of a request in flight are never postponed forever
SpecSessFair ==
  /\ InitSessions /\ [][NextSess]_vars
  /\ WF_vars(\E r \in ReqSlots : SaveSession(r))
  /\ WF_vars(\E r \in ReqSlots : RespondSession(r))

\* C2: a session whose stored status is ended keeps the status ended in every
\* step, whatever requests on it overlap
C2_EndedIsFinal ==
  [][\A s \in SessionIds :
       sess[s].status = "ended" => sess'[s].status = "ended"]_vars

\* the request whose save or answer the step has just run
Stepped(r) == reqs[r].pc # "idle" /\ reqs'[r].pc # reqs[r].pc

\* C3: a joinSession, leaveSession or updateCodeSnippet that arrives when the
\* session is stored as ended is rejected, and no request that read the
\* session as ended changes the stored session or delivers an event
C3_EndedRejectsAll ==
  [][/\ \A s \in SessionIds :
          (/\ sess[s].exists /\ sess[s].status = "ended"
           /\ last'.name \in {"join", "leave", "code"} /\ last'.arg[1] = s)
          => (last'.note # "200" /\ reqs' = reqs /\ sess' = sess /\ out' = NoOut)
     /\ \A r \in ReqSlots :
          (/\ Stepped(r) /\ reqs[r].snap.status = "ended"
           /\ reqs[r].op \in {"join", "leave", "code"})
          => (sess' = sess /\ out' = NoOut)]_vars

\* H = u1 on socket c1, P = u2 on socket c2, S = s1
HostJustDisconnected ==
  /\ last.name = "disconnect" /\ last.conn = "c1"
  /\ sess["s1"].status = "live" /\ sess["s1"].host = "u1"
  /\ Includes(sess["s1"].participants, "u2")
  /\ "c2" \in rooms[SessionRoom("s1")]

\* C4: after the host's socket disconnects from a live session that has a
\* subscribed participant, the session is eventually stored as ended and
\* session_ended is eventually delivered to the participant's socket
C4_HostDisconnectEndsSession ==
  /\ HostJustDisconnected ~> (sess["s1"].status = "ended")
  /\ HostJustDisconnected ~>
       (\E i \in 1..Len(out["c2"]) : out["c2"][i].name = "session_ended")

\* the stored fields two executions are compared on
Proj(d) == <<d.status, d.participants, d.codeSnippet>>

\* the stored session after a and then b run alone, one after the other, when
\* both succeed
SerialResults(base, a, b) ==
  LET ha == Handle(a.op, base, a.user, a.arg, 0)
      hb == Handle(b.op, ha.doc, b.user, b.arg, 0)
  IN IF ha.code = "200" /\ hb.code = "200" THEN {Proj(hb.doc)} ELSE {}

ListedPair(a, b) ==
  /\ {a.op, b.op} \in {{"join"}, {"join", "leave"}, {"join", "code"}}
  /\ a.user # b.user

\* C6: when two overlapping requests on s1 (two joins, a join and a leave, a
\* join and a code edit) have both succeeded, the stored session is what one
\* of the two serial orders produces
C6_Serializable ==
  (/\ AllIdle(reqs) /\ win.n = 2 /\ Len(win.ok) = 2
   /\ ListedPair(win.ok[1], win.ok[2]))
  => Proj(sess[WinSid]) \in
       SerialResults(win.base, win.ok[1], win.ok[2])
         \cup SerialResults(win.base, win.ok[2], win.ok[1])

\* ---------------------------------------------------------------- SpecEdit
\* handleCodeChange of two participants of the live session s1: u1 types "A"
\* on socket c1 and u2 types "B" on socket c2, each once; every edit is a
\* code_update on the socket and then an updateCodeSnippet request. c3 is a
\* third subscriber of the room
EditOf(c) == IF c = "c1" THEN "A" ELSE "B"
SenderOf(v) == IF v = "A" THEN "c1" ELSE "c2"
InFlight(v) == \E r \in ReqSlots : reqs[r].op = "code" /\ reqs[r].arg = v

InitEdit ==
  /\ connected = [c \in Conns |-> TRUE]
  /\ closed = [c \in Conns |-> FALSE]
  /\ rooms = [r \in AllRooms |->
                IF r = SessionRoom("s1") THEN Conns
                ELSE {c \in SessConns : r = UserRoom(UserOf(c))}]
  /\ sids = [c \in Conns |->
               IF c \in SessConns THEN {UserRoom(UserOf(c)), SessionRoom("s1")}
               ELSE {SessionRoom("s1")}]
  /\ userId = [c \in Conns |-> IF c \in SessConns THEN UserOf(c) ELSE Null]
  /\ authAs = [c \in Conns |-> IF c \in SessConns THEN {UserOf(c)} ELSE {}]
  /\ out = NoOut
  /\ last = [conn |-> Null, name |-> "init", arg |-> NoArg, note |-> ""]
  /\ InitMsgs /\ InitNet /\ InitConv /\ InitCli
  /\ sess = [s \in SessionIds |->
               IF s = "s1"
               THEN [NewSession("u1", "live") EXCEPT !.participants = <<"u1", "u2">>,
                                                     !.v = 1]
               ELSE NoDoc]
  /\ reqs = [r \in ReqSlots |-> IdleReq]
  /\ nReq = 0
  /\ clock = 1
  /\ win = [base |-> NoDoc, ok |-> <<>>, n |-> 0, done |-> <<>>]
  /\ edits = [acc |-> <<>>, saved |-> {}, lastCode |-> [c \in Conns |-> ""]]

NextEdit ==
  \/ \E c \in SessConns :
       /\ ~Includes(edits.acc, EditOf(c))
       /\ CodeUpdate(c, "s1", EditOf(c))
  \/ \E c \in SessConns :
       /\ Includes(edits.acc, EditOf(c))
       /\ EditOf(c) \notin edits.saved /\ ~InFlight(EditOf(c))
       /\ UpdateCodeSnippet(UserOf(c), "s1", EditOf(c))
  \/ \E r \in ReqSlots : SaveSession(r)
  \/ Authenticate("c3", ValidToken("u2"))
  \/ Disconnect("c3")

SpecEdit == InitEdit /\ [][NextEdit]_vars

\* C5: when "A" and "B" were accepted in some order and both edits are
\* saved, the stored code is the one accepted last, and so is the last
\* code_update every subscriber other than its sender was sent
C5_LastWriterWins ==
  (Len(edits.acc) = 2 /\ edits.saved = {"A", "B"} /\ AllIdle(reqs))
  => /\ sess["s1"].codeSnippet = edits.acc[2]
     /\ \A c \in rooms[SessionRoom("s1")] \ {SenderOf(edits.acc[2])} :
          edits.lastCode[c] = edits.acc[2]

\* ------------------------------------------------- SpecRooms: authentication
\* C11: an authenticate without a credential or with one that does not verify,
\* on an anonymous socket, leaves the socket anonymous and outside every
\* personal room, and delivers authentication_error to that socket alone
C11_FailedAuthRejected ==
  [][\A c \in Conns :
       (/\ last'.name = "authenticate" /\ last'.conn = c
        /\ last'.arg \in {NoToken, BadToken} /\ userId[c] = Null)
       => /\ userId'[c] = Null
          /\ sids'[c] = sids[c]
          /\ out' = SocketEmit(NoOut, c, "authentication_error", NoArg)]_vars

\* C12: an authenticate with a credential of user u sets the socket's identity
\* to u, subscribes it to user:<u> and delivers authentication_success{u} to
\* that socket alone
C12_AuthSuccess ==
  [][\A c \in Conns, u \in Users :
       (last'.name = "authenticate" /\ last'.conn = c /\ last'.arg = ValidToken(u))
       => /\ userId'[c] = u
          /\ UserRoom(u) \in sids'[c] /\ c \in rooms'[UserRoom(u)]
          /\ out' = [d \in Conns |->
                       IF d = c THEN <<Event("authentication_success", IdArg(u))>>
                       ELSE <<>>]]_vars

C12_Witness ==
  /\ last.name = "authenticate" /\ last.conn = "c2" /\ last.arg = ValidToken("u2")
  /\ userId["c2"] = "u2" /\ "c2" \in rooms[UserRoom("u2")]
  /\ connected["c1"] /\ userId["c1"] = "u1"

\* C13: a socket is a subscriber of user:<u> only if it authenticated as u;
\* no join_project, join_community or join_session puts it there
C13_PersonalRoomOnlyByAuth ==
  \A c \in Conns, u \in Users : c \in rooms[UserRoom(u)] => u \in authAs[c]

C13_Witness ==
  /\ last.name = "join_session" /\ last.conn = "c1"
  /\ sids["c1"] = {ProjectRoom("u1"), CommunityRoom("u1"), SessionRoom("u1")}
  /\ "c1" \notin rooms[UserRoom("u1")]

\* ---------------------------------------------------------------- SpecFan
\* three sockets connect, join the project room u1 and the session room s1,
\* send the client's leave events, publish to the two rooms and drop; no
\* session document exists and no socket authenticates
InitFan == InitBroker /\ InitMsgs /\ InitNet /\ InitConv /\ InitCli /\ InitSess

NextFan ==
  \/ \E c \in Conns : Connect(c)
  \/ \E c \in Conns : JoinProject(c, "u1")
  \/ \E c \in Conns : JoinSessionRoom(c, "s1")
  \/ \E c \in Conns : LeaveEvent(c, "project:", "u1")
  \/ \E c \in Conns : LeaveEvent(c, "session:", "s1")
  \/ \E c \in Conns : CollaborationUpdate(c, "u1")
  \/ \E c \in Conns : ChatMessage(c, "u1")
  \/ \E c \in Conns : CodeUpdate(c, "s1", "A")
  \/ \E c \in Conns : Disconnect(c)
  \/ \E c \in Conns : DropAgain(c)

SpecFan == InitFan /\ [][NextFan]_vars

\* the room a publishing step targets, and the sockets it is addressed to
TargetRoom ==
  IF last.name = "code_update" THEN SessionRoom(last.arg[1])
  ELSE ProjectRoom(last.arg[2])

Addressed ==
  IF last.name = "chat_message" THEN rooms[TargetRoom]
  ELSE rooms[TargetRoom] \ {last.conn}

Publishes == last.name \in {"chat_message", "collaboration_update", "code_update"}

\* C14: a join event for a room the socket is already in changes neither the
\* room's subscriber set nor the socket's room set, and every event published
\* to a room is delivered exactly once to each socket it is addressed to
C14_JoinIdempotent ==
  [][/\ last'.note = "again" => (rooms' = rooms /\ sids' = sids)
     /\ Publishes' =>
          \A d \in Conns : Len(out'[d]) = IF d \in Addressed' THEN 1 ELSE 0]_vars

C14_Witness ==
  /\ last.name = "join_project" /\ last.note = "again" /\ last.conn = "c1"
  /\ rooms[ProjectRoom("u1")] = {"c1", "c2"}

\* C15: after a socket sends the leave event for a room, it is not a
\* subscriber of that room
C15_LeaveUnsubscribes ==
  \A c \in Conns, r \in AllRooms :
    (last.name = "leave" /\ last.conn = c /\ last.arg = r) => c \notin rooms[r]

C17_CodeUpdateRejected ==
  \A c \in Conns, s \in SessionIds :
    (/\ last.name = "code_update" /\ last.conn = c /\ last.arg[1] = s
     /\ \/ ~sess[s].exists
        \/ sess[s].status = "ended"
        \/ ~Includes(sess[s].participants, userId[c]))
    => out = NoOut

\* C19: a code_update or collaboration_update sent by a socket is delivered
\* to every other socket subscribed to the target room and to no other socket,
\* the sender included, whether or not the sender is subscribed
C19_ExcludesSender ==
  last.name \in {"code_update", "collaboration_update"}
  => \A d \in Conns :
       out[d] = IF d \in rooms[TargetRoom] \ {last.conn}
                THEN <<Event(last.name, last.arg)>> ELSE <<>>

C19_Witness ==
  /\ last.name = "collaboration_update" /\ last.conn = "c1"
  /\ rooms[ProjectRoom("u1")] = {"c1", "c2"} /\ connected["c3"]
  /\ out["c2"] # <<>> /\ out["c1"] = <<>>

\* C18: a code_update is delivered to a subscriber only after its buffer was
\* saved as the session's codeSnippet
C18_PersistBeforeBroadcast ==
  \A c \in Conns : \A i \in 1..Len(out[c]) :
    out[c][i].name = "code_update" => out[c][i].arg[2] \in edits.saved

\* ---------------------------------------------------------------- SpecWrite
\* u1 (socket c1) and u2 (socket c2) exchange messages and act on session s1
\* while any store write may be rejected
NextWrite ==
  \/ DirectMessage("c2", "u1")
  \/ DirectMessageFail("c2", "u1")
  \/ \E p \in pend : DirectMessageEmit(p)
  \/ SendMessage("u1", "u2")
  \/ \E p \in pend : SendMessageCreate(p)
  \/ \E p \in pend : SendMessageCreateFail(p)
  \/ \E p \in pend : SendMessageEmit(p)
  \/ JoinSession("u2", "s1")
  \/ LeaveSession("u2", "s1")
  \/ UpdateSessionStatus("u1", "s1", "ended")
  \/ \E r \in ReqSlots : SaveSession(r)
  \/ \E r \in ReqSlots : SaveSessionFail(r)
  \/ \E r \in ReqSlots : RespondSession(r)

SpecWrite == InitSessions /\ [][NextWrite]_vars

MessageEvents == {"new_message", "direct_message"}
SessionEvents ==
  {"participant_joined", "participant_left", "session_status_changed", "session_ended"}

\* C20: a step in which a store write is rejected changes no stored document
\* and delivers no message or session event, and a message or session event
\* is delivered only by a step that follows the write it reports
C20_NoEventForFailedWrite ==
  [][/\ last'.note \in {"500", "failed"}
          => /\ msgs' = msgs /\ sess' = sess
             /\ \A d \in Conns : \A i \in 1..Len(out'[d]) :
                  out'[d][i].name \notin MessageEvents \cup SessionEvents
     /\ \A d \in Conns : \A i \in 1..Len(out'[d]) :
          /\ out'[d][i].name \in MessageEvents
               => \E m \in MsgIds : Exists(m) /\ out'[d][i].arg = MsgArg(m)
          /\ out'[d][i].name \in SessionEvents
               => \E r \in ReqSlots : reqs[r].pc = "emit"]_vars

C20_Witness ==
  /\ last.name = "sendMessage_create" /\ last.note = "500" /\ last.conn = "u1"
  /\ rooms[UserRoom("u2")] = {"c2"} /\ nMsgs = 0 /\ out = NoOut

\* ------------------------------------------------- SpecSess: roster and status
\* the roster event a finished joinSession or leaveSession reports
RosterEvent(op) == IF op = "join" THEN "participant_joined" ELSE "participant_left"

Receives(c, name) == \E i \in 1..Len(out[c]) : out[c][i].name = name

\* C21: when a joinSession or leaveSession answers success, every socket that
\* joined the session's room through join_session receives the roster event,
\* and session_ended as well when the leaving user is the host
C21_RosterFanOut ==
  [][\A r \in ReqSlots :
       (reqs[r].pc = "emit" /\ reqs'[r].pc = "idle" /\ reqs[r].op \in {"join", "leave"})
       => \A c \in rooms[SessionRoom(reqs[r].sid)] :
            /\ Receives(c, RosterEvent(reqs[r].op))'
            /\ (reqs[r].op = "leave" /\ reqs[r].user = reqs[r].loc.host)
                 => Receives(c, "session_ended")']_vars

\* C22: no step changes the stored status of a session from live to scheduled
C22_StatusForwardOnly ==
  [][\A s \in SessionIds :
       sess[s].status = "live" => sess'[s].status # "scheduled"]_vars

\* C23: the save of a joinSession made by the host of a scheduled session
\* leaves the stored status scheduled
C23_HostJoinKeepsScheduled ==
  [][\A s \in SessionIds :
       (/\ last'.name = "save" /\ last'.arg = <<s, "join">> /\ last'.note # "500"
        /\ last'.conn = sess[s].host /\ sess[s].status = "scheduled")
       => sess'[s].status = "scheduled"]_vars

\* C24: the stored participant list of a session holds each user at most once
C24_NoDuplicateParticipants ==
  \A s \in SessionIds :
    \A i, j \in 1..Len(sess[s].participants) :
      sess[s].participants[i] = sess[s].participants[j] => i = j

\* C25: after every step the host of a stored session that is not ended is
\* one of its participants, and the host of a stored session never changes
C25_HostIsParticipant ==
  [][\A s \in SessionIds :
       /\ (sess'[s].exists /\ sess'[s].status # "ended")
            => Includes(sess'[s].participants, sess'[s].host)
       /\ sess[s].exists => sess'[s].host = sess[s].host]_vars

\* the requests that publish after their save
Publishing(ops) == SelectSeq(ops, LAMBDA o : o.op # "code")

\* C26: once no request on s1 is in flight, the roster and status events of
\* the burst were published in the order their saves were applied; and the
\* participantCount a joinSession or leaveSession will publish is the length
\* of the stored participant list right after its own save
C26_PublishInCommitOrder ==
  [][/\ AllIdle(reqs') => Publishing(win'.ok) = win'.done
     /\ \A r \in ReqSlots :
          (reqs[r].pc = "save" /\ reqs'[r].pc = "emit" /\ reqs[r].op \in {"join", "leave"})
          => Len(reqs[r].loc.participants) = Len(sess'[reqs[r].sid].participants)]_vars

\* ------------------------------------------------------------ transports
\* The sections above deliver an event in the step that emits it. This
\* section follows the events of the project chat onto the transport of each
\* socket (ordered, as WebSocket and the polling transport of Socket.IO are)
\* and into the client.
ChatTexts == {"m1", "m2"}
ChatArg(id, text) == <<id, text>>

WrittenInFront(o) ==
  [c \in Conns |-> IF c \in net.down THEN net.wire[c] ELSE o[c] \o net.wire[c]]
WrittenUnlessDown(o) ==
  [c \in Conns |->
     IF \E d \in net.down : o[d] # <<>> THEN net.wire[c] ELSE net.wire[c] \o o[c]]
\* the wires after the server wrote the events o: a packet for a socket whose
\* transport has failed is discarded, the others are written behind what is
\* already on the wire
Written(o) ==
  [c \in Conns |-> IF c \in net.down THEN net.wire[c] ELSE net.wire[c] \o o[c]]

\* socket.on('chat_message') with the text of the message in the payload:
\* io.to(`project:${data.projectId}`).emit('chat_message', {...data}), in the
\* same tick as the event arrives; each text is sent once
ChatText(c, id, text) ==
  /\ connected[c] /\ c \notin net.down
  /\ \A i \in 1..Len(net.pub) : net.pub[i] # text
  /\ out' = IoToEmit(NoOut, ProjectRoom(id), "chat_message", ChatArg(id, text))
  /\ net' = [net EXCEPT !.wire = Written(out'), !.pub = Append(@, text)]
  /\ Noted(c, "chat_message", ChatArg(id, text), "")
  /\ UNCHANGED <<conv, cli>>
  /\ UNCHANGED <<connected, closed, rooms, sids, userId, authAs>>
  /\ UNCHANGED <<msgVars, sessVars>>

\* the transport of a socket fails; the server keeps the socket, and its
\* rooms, until the ping timeout closes it (Disconnect); what was on the
\* wire is lost
TransportFails(c) ==
  /\ connected[c] /\ c \notin net.down
  /\ net' = [net EXCEPT !.down = @ \cup {c}, !.wire[c] = <<>>]
  /\ out' = NoOut
  /\ Noted(c, "transport_error", NoArg, "")
  /\ UNCHANGED <<conv, cli>>
  /\ UNCHANGED <<connected, closed, rooms, sids, userId, authAs>>
  /\ UNCHANGED <<msgVars, sessVars>>

\* the client of a socket receives the event at the head of its wire
ClientReceive(c) ==
  /\ connected[c] /\ c \notin net.down
  /\ net.wire[c] # <<>>
  /\ net' = [net EXCEPT !.wire[c] = Tail(@),
                          !.got[c] = Append(@, Head(net.wire[c]))]
  /\ out' = NoOut
  /\ Noted(c, "received", NoArg, "")
  /\ UNCHANGED <<conv, cli>>
  /\ UNCHANGED <<connected, closed, rooms, sids, userId, authAs>>
  /\ UNCHANGED <<msgVars, sessVars>>

\* Sockets connect, join the chat of project u1, publish the texts, lose
\* their transport, close, and receive.
NextNet ==
  \E c \in Conns :
    \/ Connect(c)
    \/ JoinProject(c, "u1")
    \/ \E t \in ChatTexts : ChatText(c, "u1", t)
    \/ TransportFails(c)
    \/ Disconnect(c)
    \/ ClientReceive(c)

SpecNet == InitRooms /\ [][NextNet]_vars

\* C27: within one room, the events published by successive publish calls
\* reach every subscriber in the order of the calls: a client that has
\* received two chat messages received first the one published first.
C27_DeliveredInCallOrder ==
  \A c \in Conns : \A a, b \in 1..Len(net.got[c]) :
    a < b => \E i, j \in 1..Len(net.pub) :
               /\ i < j
               /\ net.pub[i] = net.got[c][a].arg[2]
               /\ net.pub[j] = net.got[c][b].arg[2]

\* a client has received both texts
C27_Witness == \E c \in Conns : Len(net.got[c]) = 2

InitTwo ==
  /\ connected = [c \in Conns |-> c \in SessConns]
  /\ closed = [c \in Conns |-> FALSE]
  /\ rooms = [r \in AllRooms |-> {c \in SessConns : r = UserRoom(UserOf(c))}]
  /\ sids = [c \in Conns |-> IF c \in SessConns THEN {UserRoom(UserOf(c))} ELSE {}]
  /\ userId = [c \in Conns |-> IF c \in SessConns THEN UserOf(c) ELSE Null]
  /\ authAs = [c \in Conns |-> IF c \in SessConns THEN {UserOf(c)} ELSE {}]
  /\ out = NoOut
  /\ last = [conn |-> Null, name |-> "init", arg |-> NoArg, note |-> ""]
  /\ InitMsgs /\ InitNet /\ InitConv /\ InitCli
  /\ \E st \in [SessionIds -> {"scheduled", "live"}] :
       sess = [s \in SessionIds |-> NewSession("u1", st[s])]
  /\ reqs = [r \in ReqSlots |-> IdleReq]
  /\ nReq = 0
  /\ clock = 1
  /\ win = [base |-> NoDoc, ok |-> <<>>, n |-> 0, done |-> <<>>]
  /\ edits = [acc |-> <<>>, saved |-> {}, lastCode |-> [c \in Conns |-> ""]]

NextTwo ==
  \/ \E s \in SessionIds : JoinSession("u2", s)
  \/ \E s \in SessionIds : LeaveSession("u2", s)
  \/ \E s \in SessionIds, v \in CodeVals : UpdateCodeSnippet("u1", s, v)
  \/ \E r \in ReqSlots : SaveSession(r)
  \/ \E r \in ReqSlots : SaveSessionFail(r)
  \/ \E r \in ReqSlots : RespondSession(r)

SpecTwo == InitTwo /\ [][NextTwo]_vars

\* a request on session s is suspended on its store round trip
Suspended(s) == \E r \in ReqSlots : reqs[r].sid = s /\ reqs[r].pc = "save"
\* the server can take one more request (bound of the model)
CanReceive == nReq < MaxReqs /\ \E r \in ReqSlots : reqs[r].pc = "idle"

\* C28: while a mutation of one session is suspended on its store round
\* trip, every mutation of another session can start, and one that has
\* started can take its next step (its save, then its publish and answer).
C28_SessionsDoNotBlock ==
  \A s, t \in SessionIds :
    (s # t /\ Suspended(s)) =>
       /\ CanReceive => /\ ENABLED JoinSession("u2", t)
                        /\ ENABLED LeaveSession("u2", t)
                        /\ \A v \in CodeVals : ENABLED UpdateCodeSnippet("u1", t, v)
       /\ \A r \in ReqSlots :
            /\ (reqs[r].sid = t /\ reqs[r].pc = "save") => ENABLED SaveSession(r)
            /\ (reqs[r].sid = t /\ reqs[r].pc = "emit") => ENABLED RespondSession(r)

\* a joinSession of s2 has just published and answered while a request on s1
\* is still suspended on its save
C28_Witness ==
  /\ Suspended("s1")
  /\ last.name = "respond" /\ last.arg = <<"s2", "join">>
  /\ Includes(sess["s2"].participants, "u2")
  /\ sess["s1"] \in {NewSession("u1", "scheduled"), NewSession("u1", "live")}

\* C30: a mark_read that the server does not carry out, here one that names
\* no stored message, delivers a rejection to the socket that sent it: the
\* step that handles it (the handler has nothing left to run afterwards)
\* delivers some event to that socket.
C30_RejectionDelivered ==
  [][\A c \in Conns :
       (last'.name = "mark_read" /\ last'.conn = c /\ last'.note = "not_found")
       => out'[c] # <<>>]_vars

\* C31: every change of a read flag from false to true is followed by a
\* message_read event to the sender's personal room: the step that changes
\* the flag leaves a continuation that goes on to publish message_read for
\* that message (no handler publishes it in the step of the write itself).
C31_ReadChangePublishes ==
  [][\A m \in MsgIds :
       (~msgs[m].read /\ msgs'[m].read)
       => \E p \in pend' : p.kind = "mark_read" /\ p.msg = m]_vars

\* C32: an updateSessionStatus on an existing session by a user who is not
\* its host is answered 403: the step stores nothing, leaves no request
\* suspended (so no later save or publish comes from it) and delivers no
\* event.
C32_OnlyHostChangesStatus ==
  [][\A s \in SessionIds :
       (/\ last'.name = "status" /\ last'.arg[1] = s
        /\ sess[s].exists /\ last'.conn # sess[s].host)
       => /\ last'.note = "403"
          /\ sess' = sess /\ reqs' = reqs
          /\ out' = NoOut]_vars

\* u2 asked to change the status of u1's session and was answered 403
C32_Witness ==
  /\ last.name = "status" /\ last.arg[1] = "s1"
  /\ last.conn = "u2" /\ sess["s1"].host = "u1"
  /\ last.note = "403"

\* ------------------------------------------------------------- duplicates
\* sendMessage requests of u1 to u2 with the same text, each with its own
\* position in the handler, so that identical requests can overlap. All of
\* them arrive within the 5 seconds of the duplicate query: every stored
\* document of the conversation matches `createdAt > now - 5000`.

\* a request arrives and runs to the answer of Message.findOne({sender,
\* recipient, text, createdAt: {$gt: now - 5000}}): a match is answered 200
\* with duplicate: true, otherwise the handler goes on to Message.create
SendMessageQuery(r) ==
  /\ conv.pc[r] = "idle"
  /\ conv' = [conv EXCEPT !.pc[r] = IF conv.docs # <<>> THEN "duplicate" ELSE "create"]
  /\ out' = NoOut
  /\ Noted("u1", "sendMessage", IdArg("u2"),
           IF conv.docs # <<>> THEN "duplicate" ELSE "create")
  /\ UNCHANGED <<connected, closed, rooms, sids, userId, authAs, net, cli>>
  /\ UNCHANGED <<msgVars, sessVars>>

\* await Message.create({sender, recipient, text})
SendMessageStore(r) ==
  /\ conv.pc[r] = "create"
  /\ conv' = [conv EXCEPT !.pc[r] = "emit", !.docs = Append(@, r)]
  /\ out' = NoOut
  /\ Noted("u1", "sendMessage_create", MsgArg(r), "")
  /\ UNCHANGED <<connected, closed, rooms, sids, userId, authAs, net, cli>>
  /\ UNCHANGED <<msgVars, sessVars>>

\* after the populate: req.io.to(`user:${recipient}`).emit('new_message'),
\* then the answer 201
SendMessagePublish(r) ==
  /\ conv.pc[r] = "emit"
  /\ conv' = [conv EXCEPT !.pc[r] = "created", !.pub = @ + 1]
  /\ out' = IoToEmit(NoOut, UserRoom("u2"), "new_message", MsgArg(r))
  /\ Noted("u1", "sendMessage_emit", MsgArg(r), "")
  /\ UNCHANGED <<connected, closed, rooms, sids, userId, authAs, net, cli>>
  /\ UNCHANGED <<msgVars, sessVars>>

NextDup ==
  \/ \E c \in Conns : Authenticate(c, TokenOf(c))
  \/ \E r \in SendSlots : SendMessageQuery(r)
  \/ \E r \in SendSlots : SendMessageStore(r)
  \/ \E r \in SendSlots : SendMessagePublish(r)

SpecDup == InitOpen /\ [][NextDup]_vars

\* C33: sendMessage requests of one sender, recipient and text that arrive
\* within 5 seconds of each other store at most one message and publish at
\* most one new_message, also when they overlap.
C33_AtMostOneMessage ==
  /\ Len(conv.docs) <= 1
  /\ conv.pub <= 1

\* C35: an open socket is a subscriber of user:<U> exactly when its stored
\* identity is U; so it is in at most one personal room, and in none while
\* it is anonymous.
C35_OnePersonalRoom ==
  \A c \in Conns : connected[c] =>
    \A u \in Users : (c \in rooms[UserRoom(u)]) <=> (userId[c] = u)

\* ---------------------------------------------------------------- SpecScope
\* socket.on('community_message'): io.to(`community:${data.communityId}`).emit
CommunityMessage(c, id) ==
  /\ connected[c]
  /\ out' = IoToEmit(NoOut, CommunityRoom(id), "community_message", IdArg(id))
  /\ Handled(c, "community_message", IdArg(id))
  /\ UNCHANGED <<connected, closed, rooms, sids, userId, authAs>>
  /\ UNCHANGED <<msgVars, sessVars>>

\* socket.on('event_update'): io.to(`community:${data.communityId}`).emit
EventUpdate(c, id) ==
  /\ connected[c]
  /\ out' = IoToEmit(NoOut, CommunityRoom(id), "event_update", IdArg(id))
  /\ Handled(c, "event_update", IdArg(id))
  /\ UNCHANGED <<connected, closed, rooms, sids, userId, authAs>>
  /\ UNCHANGED <<msgVars, sessVars>>

\* the payload of session_message: {userId, message, timestamp}
FromUser(u) == <<"user", u>>

SessionMessageUnchecked(c, sid) ==
  /\ connected[c]
  /\ out' = IoToEmit(NoOut, SessionRoom(sid), "session_message", FromUser(userId[c]))
  /\ Handled(c, "session_message", IdArg(sid))
  /\ UNCHANGED <<connected, closed, rooms, sids, userId, authAs>>
  /\ UNCHANGED <<msgVars, sessVars>>
\* socket.on('session_message'): returns when socket.data.userId is not set,
\* otherwise io.to(`session:${sessionId}`).emit with userId in the payload
SessionMessage(c, sid) ==
  /\ connected[c]
  /\ out' = IF userId[c] = Null THEN NoOut
            ELSE IoToEmit(NoOut, SessionRoom(sid), "session_message", FromUser(userId[c]))
  /\ Handled(c, "session_message", IdArg(sid))
  /\ UNCHANGED <<connected, closed, rooms, sids, userId, authAs>>
  /\ UNCHANGED <<msgVars, sessVars>>

\* Three open sockets (c1 and c2 of u1, c3 of u2) authenticate or stay
\* anonymous, join rooms of two projects, two communities and two sessions,
\* and publish to the rooms of either id.
NextScope ==
  \/ \E c \in Conns : Authenticate(c, TokenOf(c))
  \/ JoinProject("c1", "u1") \/ JoinProject("c2", "u2")
  \/ JoinCommunity("c2", "u1") \/ JoinCommunity("c3", "u2")
  \/ JoinSessionRoom("c1", "s1") \/ JoinSessionRoom("c3", "s2")
  \/ \E c \in {"c1", "c3"}, i \in Users : ChatMessage(c, i)
  \/ \E i \in Users : CommunityMessage("c2", i)
  \/ \E i \in Users : EventUpdate("c3", i)
  \/ \E s \in SessionIds : CodeUpdate("c1", s, "A")
  \/ \E c \in {"c1", "c3"}, s \in SessionIds : SessionMessage(c, s)
  \/ \E c \in {"c2", "c3"} : DirectMessage(c, "u2")
  \/ \E p \in pend : DirectMessageEmit(p)

SpecScope == InitOpen /\ [][NextScope]_vars

\* C34: a direct_message or session_message from a socket with no stored
\* identity stores no message, suspends no handler and delivers no event; a
\* message a direct_message stores has the identity of the sending socket as
\* its sender, and every delivered session_message carries the identity of
\* the socket that sent it.
C34_SenderIsAuthenticated ==
  [][/\ \A c \in Conns :
          (last'.conn = c /\ last'.name \in {"direct_message", "session_message"})
          => /\ userId[c] = Null =>
                  (out' = NoOut /\ msgs' = msgs /\ nMsgs' = nMsgs /\ pend' = pend)
             /\ nMsgs' # nMsgs =>
                  (userId[c] # Null /\ msgs'[MsgSeq[nMsgs']].sender = userId[c])
             /\ \A d \in Conns : \A i \in 1..Len(out'[d]) :
                  /\ userId[c] \in authAs[c]
                  /\ out'[d][i] = Event("session_message", FromUser(userId[c]))
     /\ last'.name = "direct_message_emit" =>
          \A d \in Conns : \A i \in 1..Len(out'[d]) :
            /\ out'[d][i] = Event("direct_message", last'.arg)
            /\ msgs[last'.arg[2]].sender \in authAs[last'.conn]]_vars

\* a session_message of the anonymous socket c1, for the session whose room
\* c1 has joined, was dropped
C34_Witness ==
  /\ last.name = "session_message" /\ last.conn = "c1"
  /\ userId["c1"] = Null
  /\ "c1" \in rooms[SessionRoom(last.arg[2])]
  /\ out = NoOut

\* the rooms a publishing step targets
ScopeRooms ==
  CASE last.name = "chat_message" -> {ProjectRoom(last.arg[2])}
    [] last.name \in {"community_message", "event_update"} -> {CommunityRoom(last.arg[2])}
    [] last.name = "code_update" -> {SessionRoom(last.arg[1])}
    [] last.name = "session_message" -> {SessionRoom(last.arg[2])}
    [] last.name = "direct_message_emit" ->
         {UserRoom(msgs[last.arg[2]].sender), UserRoom(msgs[last.arg[2]].recipient)}
    [] OTHER -> {}

\* C36: an event published to a room is delivered only to sockets that are
\* subscribers of that room when it is published: a direct_message only to
\* subscribers of the sender's or the recipient's personal room, an event of
\* one project, community or session to no socket outside its room.
C36_OnlySubscribersReceive ==
  [][\A d \in Conns :
       out'[d] # <<>> =>
         \/ last'.name = "authenticate"
         \/ \E r \in ScopeRooms' : d \in rooms[r] /\ d \in rooms'[r]]_vars

\* a chat message of project u1 was delivered to its subscriber c1 and not to
\* c2, which has joined the room of project u2 only
C36_Witness ==
  /\ last.name = "chat_message" /\ last.arg[2] = "u1"
  /\ out["c1"] # <<>> /\ out["c2"] = <<>>
  /\ sids["c2"] = {ProjectRoom("u2")}

\* ------------------------------------------------------------------ client
\* The socket module of the client. Its listeners name the module-level
\* `socket`, not the socket they were registered on.
SockArg(k) == <<"sock", k>>
CallArg(a) == <<"call", a>>

\* a step of the client; the server handles nothing
ClientStep(name, arg, note) ==
  /\ Noted("client", name, arg, note)
  /\ out' = NoOut
  /\ UNCHANGED <<connected, closed, rooms, sids, userId, authAs, net, conv>>
  /\ UNCHANGED <<msgVars, sessVars>>

\* initializeSocket, "Clean up any existing socket"
Cleanup(c) ==
  IF c.handle = Null THEN c
  ELSE [c EXCEPT !.st[c.handle] = "closed", !.handle = Null,
                 !.attempts = 0, !.abandoned = FALSE]

\* initializeSocket is called (app start, session screen, network listener)
\* and runs to `await checkNetworkConnectivity()`
InitializeSocket(a) ==
  /\ cli.pc[a] = "idle"
  /\ cli' = [cli EXCEPT !.pc[a] = "net"]
  /\ ClientStep("initializeSocket", CallArg(a), "")

\* initializeSocket from the answer of checkNetworkConnectivity to
\* `await AsyncStorage.getItem('token')`
InitializeSocketCheck(a, online) ==
  /\ cli.pc[a] = "net"
  /\ IF ~online
     THEN /\ cli' = [cli EXCEPT !.pc[a] = "idle"]
          /\ ClientStep("initializeSocket_check", CallArg(a), "offline")
     ELSE IF cli.handle # Null /\ cli.st[cli.handle] = "connected"
     THEN /\ cli' = [cli EXCEPT !.pc[a] = "idle"]
          /\ ClientStep("initializeSocket_check", CallArg(a), "existing")
     ELSE /\ cli' = [Cleanup(cli) EXCEPT !.pc[a] = "open"]
          /\ ClientStep("initializeSocket_check", CallArg(a), "")

\* initializeSocket after the awaits of the token and of
\* tryMultipleConnections: socket = io(socketUrl, {...}), listeners registered
InitializeSocketOpen(a, t) ==
  /\ cli.pc[a] = "open"
  /\ cli.n < MaxSocks
  /\ LET k == SockSeq[cli.n + 1] IN
     /\ cli' = [cli EXCEPT !.handle = k, !.st[k] = "connecting", !.tok[k] = t,
                           !.n = @ + 1, !.pc[a] = "idle"]
     /\ ClientStep("initializeSocket_open", SockArg(k), "")

\* socket.on('connect') of socket k: the listener reads socket.id of the
\* module-level socket (a TypeError ends it when that is null), resets the
\* counters and emits authenticate on the module-level socket
OnConnect(k) ==
  /\ cli.st[k] = "connecting"
  /\ LET up == [cli EXCEPT !.st[k] = "connected"] IN
     cli' = IF cli.handle = Null THEN up
            ELSE LET reset == [up EXCEPT !.attempts = 0, !.abandoned = FALSE] IN
                 IF cli.tok[k] /\ up.st[cli.handle] # "closed"
                 THEN [reset EXCEPT !.sent[cli.handle] = TRUE]
                 ELSE reset
  /\ ClientStep("connect", SockArg(k), "")

\* socket.on('connect_error') of socket k
OnConnectError(k) ==
  /\ cli.st[k] = "connecting"
  /\ cli.attempts < MaxErrs
  /\ LET count == [cli EXCEPT !.attempts = @ + 1] IN
     IF count.attempts >= MAX_RECONNECTION_ATTEMPTS /\ ~cli.abandoned
     THEN IF cli.handle = Null
          THEN /\ cli' = [count EXCEPT !.abandoned = TRUE]
               /\ ClientStep("connect_error", SockArg(k), "TypeError")
          ELSE /\ cli' = [count EXCEPT !.abandoned = TRUE,
                                       !.st[cli.handle] = "closed", !.alert = TRUE]
               /\ ClientStep("connect_error", SockArg(k), "alert")
     ELSE /\ cli' = count
          /\ ClientStep("connect_error", SockArg(k), "")

\* the connection of socket k is lost: socket.on('disconnect') logs, and the
\* socket reconnects by itself (reconnection: true)
OnDisconnect(k) ==
  /\ cli.st[k] = "connected"
  /\ cli' = [cli EXCEPT !.st[k] = "connecting", !.sent[k] = FALSE]
  /\ ClientStep("disconnect", SockArg(k), "")

\* the alert's Try Again: resets the counters and calls initializeSocket
TryAgain(a) ==
  /\ cli.alert
  /\ cli.pc[a] = "idle"
  /\ cli' = [cli EXCEPT !.alert = FALSE, !.abandoned = FALSE, !.attempts = 0,
                        !.pc[a] = "net"]
  /\ ClientStep("try_again", CallArg(a), "")

\* the alert's OK
DismissAlert ==
  /\ cli.alert
  /\ cli' = [cli EXCEPT !.alert = FALSE]
  /\ ClientStep("alert_ok", NoArg, "")

\* disconnectSocket
DisconnectSocket ==
  /\ cli.handle # Null
  /\ cli' = [cli EXCEPT !.st[cli.handle] = "closed", !.handle = Null]
  /\ ClientStep("disconnectSocket", NoArg, "")

NextClient ==
  \/ \E a \in Calls : InitializeSocket(a)
  \/ \E a \in Calls, online \in BOOLEAN : InitializeSocketCheck(a, online)
  \/ \E a \in Calls, t \in BOOLEAN : InitializeSocketOpen(a, t)
  \/ \E k \in CSocks : OnConnect(k)
  \/ \E k \in CSocks : OnConnectError(k)
  \/ \E k \in CSocks : OnDisconnect(k)
  \/ \E a \in Calls : TryAgain(a)
  \/ DismissAlert
  \/ DisconnectSocket

SpecClient == InitRooms /\ [][NextClient]_vars

\* C37: every socket the module created and has not disconnected is the one
\* the module-level handle refers to, so at most one socket is open.
C37_OneOpenSocket ==
  \A k \in CSocks :
    cli.st[k] \in {"connecting", "connected"} => cli.handle = k

\* C38: the connect_error that brings the attempt counter to 5 while
\* reconnection is not abandoned disconnects the failing socket, marks
\* reconnection abandoned and shows one alert; any other connect_error shows
\* no alert and changes neither the flag nor any socket; a connect resets
\* the counter to 0 and clears the flag.
C38_BoundedReconnection ==
  [][\A k \in CSocks :
       /\ (last'.name = "connect_error" /\ last'.arg = SockArg(k)) =>
            IF cli.attempts + 1 >= MAX_RECONNECTION_ATTEMPTS /\ ~cli.abandoned
            THEN /\ cli'.abandoned /\ cli'.alert /\ last'.note = "alert"
                 /\ cli'.st[k] = "closed"
            ELSE /\ last'.note = ""
                 /\ cli'.abandoned = cli.abandoned /\ cli'.st = cli.st
       /\ (last'.name = "connect" /\ last'.arg = SockArg(k)) =>
            (cli'.attempts = 0 /\ ~cli'.abandoned)]_vars

\* C39: when a socket that was created with a stored token connects or
\* reconnects, authenticate is emitted on that socket.
C39_ReconnectAuthenticates ==
  [][\A k \in CSocks :
       (last'.name = "connect" /\ last'.arg = SockArg(k) /\ cli.tok[k])
       => cli'.sent[k]]_vars

====
